---- MODULE Spec2Model ----
(***************************************************************************)
(* ReqGuard: the scoring and orchestration core of main.py, agents.py and  *)
(* checklists.py.                                                          *)
(*                                                                         *)
(* Text is a sequence of one-character strings, so that lower(), upper(),  *)
(* replace() and the substring test "x in y" are computed character by     *)
(* character as Python computes them.                                      *)
(*                                                                         *)
(* Scores are fixed-point numbers in millionths (Scale = 1.0); every       *)
(* deduction and threshold of the source is an exact multiple of the unit. *)
(* The source computes in binary floating point, where a few sums round    *)
(* below the exact value (1.0 - 4 * 0.05 - 0.10 gives 0.6999999999999998   *)
(* and is classified "clarify", the exact 0.70 is "partial"); the order    *)
(* and clamping properties stated below do not depend on the rounding.     *)
(*                                                                         *)
(* The language-model backend and the hash of a requirements text are      *)
(* inputs chosen from small sets.  The completions asked for by the author *)
(* and by the critique are taken to arrive; the calls of the gap check may *)
(* fail, as check_against_checklist provides for.                          *)
(***************************************************************************)
EXTENDS Integers, Sequences, FiniteSets, TLC

VARIABLES
    store,      \* MemorySaver: thread id -> checkpoint (channel values, pending node)
    hashOf,     \* this process's hash(): requirements text -> thread id
    CHECKLIST,  \* the shared base table of checklists.py
    last,       \* what the most recent public call did (observed by its caller)
    passes,     \* per thread id: author/critic passes executed so far
    approvedSince, \* per thread id: approve_and_continue was called on it after
                \* the most recent run_analysis that used it
    calls,      \* number of public calls made so far
    chk,        \* one check_against_checklist / critic_node run, category by category
    fn          \* one call of a pure function: its arguments and its result

vars == <<store, hashOf, CHECKLIST, last, passes, approvedSince, calls, chk, fn>>

-----------------------------------------------------------------------------
(* Python str operations on character sequences                            *)

Min(a, b) == IF a <= b THEN a ELSE b

Max(a, b) == IF a >= b THEN a ELSE b

LowerOf ==
    [A |-> "a", B |-> "b", C |-> "c", D |-> "d", E |-> "e", F |-> "f", G |-> "g",
     H |-> "h", I |-> "i", J |-> "j", K |-> "k", L |-> "l", M |-> "m", N |-> "n",
     O |-> "o", P |-> "p", Q |-> "q", R |-> "r", S |-> "s", T |-> "t", U |-> "u",
     V |-> "v", W |-> "w", X |-> "x", Y |-> "y", Z |-> "z"]

UpperOf ==
    [a |-> "A", b |-> "B", c |-> "C", d |-> "D", e |-> "E", f |-> "F", g |-> "G",
     h |-> "H", i |-> "I", j |-> "J", k |-> "K", l |-> "L", m |-> "M", n |-> "N",
     o |-> "O", p |-> "P", q |-> "Q", r |-> "R", s |-> "S", t |-> "T", u |-> "U",
     v |-> "V", w |-> "W", x |-> "X", y |-> "Y", z |-> "Z"]

\* str.lower()
Lower(s) == [i \in 1..Len(s) |-> IF s[i] \in DOMAIN LowerOf THEN LowerOf[s[i]] ELSE s[i]]

\* str.upper()
Upper(s) == [i \in 1..Len(s) |-> IF s[i] \in DOMAIN UpperOf THEN UpperOf[s[i]] ELSE s[i]]

\* str.replace(old, new) for single characters
ReplaceChar(s, old, new) == [i \in 1..Len(s) |-> IF s[i] = old THEN new ELSE s[i]]

\* the Python test "sub in s"
Contains(s, sub) ==
    \/ sub = <<>>
    \/ \E i \in 1..(Len(s) - Len(sub) + 1) :
           s[i] = sub[1] /\ SubSeq(s, i, i + Len(sub) - 1) = sub

-----------------------------------------------------------------------------
(* checklists.py                                                           *)

ChecklistItem(key, description, severity, example_question) ==
    [key |-> key, description |-> description, severity |-> severity,
     example_question |-> example_question]

\* a dict is a sequence of [key, value] entries in insertion order
LOAN_TYPE_TRIGGERS == <<
    [tag |-> "FHA", triggers |-> <<
        <<"f","h","a">>,
        <<"f","e","d","e","r","a","l"," ","h","o","u","s","i","n","g">>,
        <<"h","u","d">>,
        <<"m","i","p">>,
        <<"u","p","f","r","o","n","t"," ","m","i","p">>,
        <<"2","0","3","b">>,
        <<"2","0","3","k">>
    >>],
    [tag |-> "VA", triggers |-> <<
        <<"v","a">>,
        <<"v","e","t","e","r","a","n">>,
        <<"m","i","l","i","t","a","r","y">>,
        <<"c","e","r","t","i","f","i","c","a","t","e"," ","o","f"," ","e","l","i","g","i","b","i","l","i","t","y">>,
        <<"c","o","e">>,
        <<"f","u","n","d","i","n","g"," ","f","e","e">>
    >>],
    [tag |-> "USDA", triggers |-> <<
        <<"u","s","d","a">>,
        <<"r","u","r","a","l"," ","d","e","v","e","l","o","p","m","e","n","t">>,
        <<"r","u","r","a","l"," ","h","o","u","s","i","n","g">>,
        <<"g","u","a","r","a","n","t","e","e","d"," ","r","u","r","a","l">>
    >>],
    [tag |-> "Conventional", triggers |-> <<
        <<"c","o","n","v","e","n","t","i","o","n","a","l">>,
        <<"f","a","n","n","i","e"," ","m","a","e">>,
        <<"f","r","e","d","d","i","e"," ","m","a","c">>,
        <<"c","o","n","f","o","r","m","i","n","g">>,
        <<"g","s","e">>
    >>],
    [tag |-> "Jumbo", triggers |-> <<
        <<"j","u","m","b","o">>,
        <<"n","o","n","-","c","o","n","f","o","r","m","i","n","g">>,
        <<"h","i","g","h"," ","b","a","l","a","n","c","e">>,
        <<"s","u","p","e","r"," ","c","o","n","f","o","r","m","i","n","g">>
    >>],
    [tag |-> "Reverse", triggers |-> <<
        <<"r","e","v","e","r","s","e"," ","m","o","r","t","g","a","g","e">>,
        <<"h","e","c","m">>,
        <<"h","o","m","e"," ","e","q","u","i","t","y"," ","c","o","n","v","e","r","s","i","o","n">>
    >>]
>>

\* the module-level CHECKLIST dict as built at import time
BaseChecklist == <<
    [category |-> "loan_product", items |-> <<
        ChecklistItem(<<"l","o","a","n","_","t","y","p","e">>,
            "Loan type clearly specified", "critical",
            "What type of loan is this? (FHA, VA, Conventional, etc.)"),
        ChecklistItem(<<"l","o","a","n","_","a","m","o","u","n","t">>,
            "Loan amount or range specified", "critical",
            "What is the expected loan amount range?"),
        ChecklistItem(<<"i","n","t","e","r","e","s","t","_","r","a","t","e","_","t","y","p","e">>,
            "Fixed or adjustable rate specified", "high",
            "Is this a fixed-rate or adjustable-rate mortgage?"),
        ChecklistItem(<<"l","o","a","n","_","t","e","r","m">>,
            "Loan term specified (15, 20, 30 years)", "high",
            "What loan terms should be supported?"),
        ChecklistItem(<<"l","t","v","_","l","i","m","i","t","s">>,
            "LTV limits defined", "high",
            "What are the maximum LTV ratios for this product?")
    >>],
    [category |-> "borrower", items |-> <<
        ChecklistItem(<<"d","t","i","_","t","h","r","e","s","h","o","l","d","s">>,
            "DTI thresholds defined", "critical",
            "What are the front-end and back-end DTI limits?"),
        ChecklistItem(<<"c","r","e","d","i","t","_","s","c","o","r","e">>,
            "Minimum credit score requirements", "critical",
            "What is the minimum credit score required?"),
        ChecklistItem(<<"i","n","c","o","m","e","_","v","e","r","i","f","i","c","a","t","i","o","n">>,
            "Income verification method specified", "high",
            "How should income be verified? (W2, tax returns, bank statements)"),
        ChecklistItem(<<"e","m","p","l","o","y","m","e","n","t","_","h","i","s","t","o","r","y">>,
            "Employment history requirements", "medium",
            "What employment history is required?"),
        ChecklistItem(<<"r","e","s","e","r","v","e","s">>,
            "Reserve requirements specified", "medium",
            "How many months of reserves are required?")
    >>],
    [category |-> "property", items |-> <<
        ChecklistItem(<<"p","r","o","p","e","r","t","y","_","t","y","p","e","s">>,
            "Eligible property types listed", "high",
            "What property types are eligible? (SFR, Condo, Multi-unit)"),
        ChecklistItem(<<"o","c","c","u","p","a","n","c","y">>,
            "Occupancy type specified", "high",
            "What occupancy types are allowed? (Primary, Second home, Investment)"),
        ChecklistItem(<<"a","p","p","r","a","i","s","a","l">>,
            "Appraisal requirements defined", "high",
            "What are the appraisal requirements?")
    >>],
    [category |-> "compliance", items |-> <<
        ChecklistItem(<<"t","r","i","d","_","t","i","m","i","n","g">>,
            "TRID disclosure timing requirements", "critical",
            "How will TRID timing requirements be enforced?"),
        ChecklistItem(<<"h","m","d","a","_","f","i","e","l","d","s">>,
            "HMDA data collection requirements", "critical",
            "Which HMDA fields need to be collected?"),
        ChecklistItem(<<"f","a","i","r","_","l","e","n","d","i","n","g">>,
            "Fair lending compliance approach", "critical",
            "How will fair lending compliance be ensured?"),
        ChecklistItem(<<"s","t","a","t","e","_","s","p","e","c","i","f","i","c">>,
            "State-specific requirements noted", "high",
            "Which states will this product be offered in? Any state-specific rules?")
    >>]
>>

FhaItems == <<
    ChecklistItem(<<"m","i","p","_","c","a","l","c","u","l","a","t","i","o","n">>,
        "MIP calculation rules", "critical",
        "How should upfront and annual MIP be calculated?"),
    ChecklistItem(<<"f","h","a","_","l","i","m","i","t","s">>,
        "FHA loan limits by county", "high",
        "How will FHA loan limits be determined?")
>>

VaItems == <<
    ChecklistItem(<<"e","n","t","i","t","l","e","m","e","n","t">>,
        "VA entitlement verification", "critical",
        "How will VA entitlement be verified?"),
    ChecklistItem(<<"f","u","n","d","i","n","g","_","f","e","e">>,
        "VA funding fee calculation", "critical",
        "How should the VA funding fee be calculated?")
>>

\* dict lookup / insertion on a sequence of [category, items] entries
HasCategory(d, c) == \E i \in 1..Len(d) : d[i].category = c

DictSet(d, c, v) ==
    IF HasCategory(d, c)
    THEN [i \in 1..Len(d) |-> IF d[i].category = c THEN [category |-> c, items |-> v] ELSE d[i]]
    ELSE Append(d, [category |-> c, items |-> v])

\* any(trigger in text_lower for trigger in triggers)
AnyTrigger(text_lower, triggers) ==
    \E i \in 1..Len(triggers) : Contains(text_lower, triggers[i])

\* the detector as it would be without text.lower()
detect_loan_type_case_sensitive(text) ==
    LET matching == SelectSeq(LOAN_TYPE_TRIGGERS, LAMBDA e : AnyTrigger(text, e.triggers))
        detected == [i \in 1..Len(matching) |-> matching[i].tag]
    IN  [primary_type |-> IF detected # <<>> THEN detected[1] ELSE "Conventional",
         all_detected |-> detected,
         confidence   |-> IF detected # <<>> THEN 900000 ELSE 500000]

detect_loan_type(text) ==
    LET text_lower == Lower(text)
        matching == SelectSeq(LOAN_TYPE_TRIGGERS, LAMBDA e : AnyTrigger(text_lower, e.triggers))
        detected == [i \in 1..Len(matching) |-> matching[i].tag]
    IN  [primary_type |-> IF detected # <<>> THEN detected[1] ELSE "Conventional",
         all_detected |-> detected,
         confidence   |-> IF detected # <<>> THEN 900000 ELSE 500000]

\* the function as it would be with base = CHECKLIST, the same dict object:
\* the insertions go to the shared table
get_checklist_for_loan_type_aliased(shared, loan_type) ==
    LET base == shared
        result == IF loan_type = "FHA" THEN DictSet(base, "fha_specific", FhaItems)
                  ELSE IF loan_type = "VA" THEN DictSet(base, "va_specific", VaItems)
                  ELSE base
    IN  [result |-> result, shared |-> result]

\* Returns the dict handed to the caller and the shared table as the call leaves it.
\* CHECKLIST.copy() is a new dict object holding the same entries, so the
\* insertions below go to the copy.
get_checklist_for_loan_type(shared, loan_type) ==
    LET base == shared
        result == IF loan_type = "FHA" THEN DictSet(base, "fha_specific", FhaItems)
                  ELSE IF loan_type = "VA" THEN DictSet(base, "va_specific", VaItems)
                  ELSE base
    IN  [result |-> result, shared |-> shared]

-----------------------------------------------------------------------------
(* agents.py                                                               *)

\* ReqGuardAuthor.extract; content is the backend's completion
extract(raw_requirements, content) ==
    [loan_classification     |-> detect_loan_type(raw_requirements),
     structured_requirements |-> content,
     raw_input               |-> raw_requirements]

\* The backend's answer to one category prompt.  kind "raise": llm.invoke
\* raises.  kind "content": response.content is a sequence of tokens, a token
\* being a record whose field t tells what it is:
\*   "ws"                    a run of whitespace
\*   "fence_json", "fence"   the markdown fences removed by replace()
\*   "prose"                 text that is not JSON
\*   "array"                 a JSON value that is not an object
\*   "object" (with map)     a JSON object; map takes keys to JSON values
\* A JSON value of an object is JsonString(s) or NonString (true, 1, null, ..).
JsonString(s) == [t |-> "string", s |-> s]

NonString == [t |-> "nonstring", s |-> <<>>]

IsWs(tok) == tok.t = "ws"

IsFence(tok) == tok.t = "fence_json" \/ tok.t = "fence"

\* content.strip()
RECURSIVE LStrip(_)
LStrip(c) == IF c # <<>> /\ IsWs(Head(c)) THEN LStrip(Tail(c)) ELSE c

RECURSIVE RStrip(_)
RStrip(c) == IF c # <<>> /\ IsWs(c[Len(c)]) THEN RStrip(SubSeq(c, 1, Len(c) - 1)) ELSE c

Strip(c) == RStrip(LStrip(c))

\* .replace(fence_json, "").replace(fence, "")
RemoveFences(c) == SelectSeq(c, LAMBDA tok : ~IsFence(tok))

\* json.loads: whitespace around the single JSON value is accepted
JsonLoads(c) ==
    LET body == SelectSeq(c, LAMBDA tok : ~IsWs(tok))
    IN  IF Len(body) = 1 /\ body[1].t \in {"array", "object"}
        THEN [ok |-> TRUE, value |-> body[1]]
        ELSE [ok |-> FALSE, value |-> [t |-> "none"]]

Gap(category, item) ==
    [category    |-> category,
     key         |-> item.key,
     description |-> item.description,
     severity    |-> item.severity,
     question    |-> item.example_question]

NO == <<"N","O">>

\* the loop of the try block as it would be with the verdict compared for
\* equality with "NO"
RECURSIVE TryItems_exact(_, _, _, _, _)
TryItems_exact(gaps, category, items, i, results) ==
    IF i > Len(items) THEN [gaps |-> gaps, raised |-> FALSE]
    ELSE IF results.t # "object" THEN [gaps |-> gaps, raised |-> TRUE]
    ELSE LET item == items[i]
             value == IF item.key \in DOMAIN results.map THEN results.map[item.key]
                      ELSE JsonString(NO)
         IN  IF value.t # "string" THEN [gaps |-> gaps, raised |-> TRUE]
             ELSE TryItems_exact(IF Upper(value.s) = NO THEN Append(gaps, Gap(category, item))
                                 ELSE gaps,
                                 category, items, i + 1, results)

\* the loop of the try block from item i on: stops where results.get or
\* .upper() raises AttributeError, keeping the gaps appended so far
RECURSIVE TryItems(_, _, _, _, _)
TryItems(gaps, category, items, i, results) ==
    IF i > Len(items) THEN [gaps |-> gaps, raised |-> FALSE]
    ELSE IF results.t # "object" THEN [gaps |-> gaps, raised |-> TRUE]
    ELSE LET item == items[i]
             value == IF item.key \in DOMAIN results.map THEN results.map[item.key]
                      ELSE JsonString(NO)
         IN  IF value.t # "string" THEN [gaps |-> gaps, raised |-> TRUE]
             ELSE TryItems(IF Contains(Upper(value.s), NO) THEN Append(gaps, Gap(category, item))
                           ELSE gaps,
                           category, items, i + 1, results)

\* the except block as it would be with the key looked up as written
RECURSIVE Fallback_raw_key(_, _, _, _, _)
Fallback_raw_key(gaps, category, items, i, requirements_text) ==
    IF i > Len(items) THEN gaps
    ELSE Fallback_raw_key(IF ~Contains(Lower(requirements_text), items[i].key)
                          THEN Append(gaps, Gap(category, items[i])) ELSE gaps,
                          category, items, i + 1, requirements_text)

\* the except block: keyword matching for every item of the category
RECURSIVE Fallback(_, _, _, _, _)
Fallback(gaps, category, items, i, requirements_text) ==
    IF i > Len(items) THEN gaps
    ELSE Fallback(IF ~Contains(Lower(requirements_text), ReplaceChar(items[i].key, "_", " "))
                  THEN Append(gaps, Gap(category, items[i])) ELSE gaps,
                  category, items, i + 1, requirements_text)

\* one iteration of the category loop of check_against_checklist
CheckCategory(gaps, category, items, response, requirements_text) ==
    IF response.kind = "raise"
    THEN Fallback(gaps, category, items, 1, requirements_text)
    ELSE LET parsed == JsonLoads(RemoveFences(Strip(response.content)))
         IN  IF ~parsed.ok
             THEN Fallback(gaps, category, items, 1, requirements_text)
             ELSE LET tried == TryItems(gaps, category, items, 1, parsed.value)
                  IN  IF tried.raised
                      THEN Fallback(tried.gaps, category, items, 1, requirements_text)
                      ELSE tried.gaps

RECURSIVE CheckFrom(_, _, _, _, _)
CheckFrom(gaps, checklist, i, responses, requirements_text) ==
    IF i > Len(checklist) THEN gaps
    ELSE CheckFrom(CheckCategory(gaps, checklist[i].category, checklist[i].items,
                                 responses[i], requirements_text),
                   checklist, i + 1, responses, requirements_text)

\* ReqGuardCritic.check_against_checklist; responses[i] answers the i-th category
check_against_checklist(author_output, shared, responses) ==
    LET loan_type == author_output.loan_classification.primary_type
        checklist == get_checklist_for_loan_type(shared, loan_type).result
    IN  CheckFrom(<<>>, checklist, 1, responses, author_output.structured_requirements)

\* ReqGuardCritic.critique; content is the backend's completion
critique(author_output, checklist_gaps, content) ==
    [checklist_gaps |-> checklist_gaps,
     llm_critique   |-> content,
     loan_type      |-> author_output.loan_classification.primary_type]

Scale == 1000000

RECURSIVE RuleScore(_, _, _)
RuleScore(gaps, i, rule_score) ==
    IF i > Len(gaps) THEN rule_score
    ELSE RuleScore(gaps, i + 1,
                   IF gaps[i].severity = "critical" THEN rule_score - 100000
                   ELSE IF gaps[i].severity = "high" THEN rule_score - 50000
                   ELSE IF gaps[i].severity = "medium" THEN rule_score - 20000
                   ELSE rule_score)

LlmPenalty(llm_critique) ==
    LET critique_lower == Lower(llm_critique)
    IN  IF Contains(critique_lower, <<"c","a","t","a","s","t","r","o","p","h","i","c">>)
           \/ Contains(critique_lower, <<"c","r","i","t","i","c","a","l"," ","f","a","i","l","u","r","e">>)
        THEN 200000
        ELSE IF Contains(critique_lower, <<"m","a","j","o","r"," ","g","a","p">>)
                \/ Contains(critique_lower, <<"s","e","r","i","o","u","s">>)
        THEN 100000
        ELSE 0

\* the scorer as it would be without the final clamp
calculate_confidence_unclamped(gaps, llm_critique) ==
    LET rule_score  == Max(0, RuleScore(gaps, 1, Scale))
    IN  rule_score - LlmPenalty(llm_critique)

\* the scorer as it would be with the 70/30 blend its comment describes
calculate_confidence_weighted(gaps, llm_critique) ==
    LET rule_score  == Max(0, RuleScore(gaps, 1, Scale))
        final_score == (7 * rule_score + 3 * (Scale - LlmPenalty(llm_critique))) \div 10
    IN  Max(0, Min(Scale, final_score))

calculate_confidence(gaps, llm_critique) ==
    LET rule_score  == Max(0, RuleScore(gaps, 1, Scale))
        final_score == rule_score - LlmPenalty(llm_critique)
    IN  Max(0, Min(Scale, final_score))

\* the classifier as it would be with strict comparisons
determine_outcome_strict(confidence) ==
    IF confidence > 950000 THEN "complete"
    ELSE IF confidence > 700000 THEN "partial"
    ELSE "clarify"

determine_outcome(confidence) ==
    IF confidence >= 950000 THEN "complete"
    ELSE IF confidence >= 700000 THEN "partial"
    ELSE "clarify"

\* the sort key of generate_questions
SeverityRank(g) ==
    IF g.severity = "critical" THEN 0
    ELSE IF g.severity = "high" THEN 1
    ELSE IF g.severity = "medium" THEN 2
    ELSE IF g.severity = "low" THEN 3
    ELSE 4

\* the insertion as it would be in a sort that is not stable
RECURSIVE InsertByRank_unstable(_, _)
InsertByRank_unstable(sorted, g) ==
    IF sorted = <<>> THEN <<g>>
    ELSE IF SeverityRank(Head(sorted)) < SeverityRank(g)
         THEN <<Head(sorted)>> \o InsertByRank_unstable(Tail(sorted), g)
         ELSE <<g>> \o sorted

\* sorted(..., key=...) is stable: an element goes after every element whose
\* key is not larger
RECURSIVE InsertByRank(_, _)
InsertByRank(sorted, g) ==
    IF sorted = <<>> THEN <<g>>
    ELSE IF SeverityRank(Head(sorted)) <= SeverityRank(g)
         THEN <<Head(sorted)>> \o InsertByRank(Tail(sorted), g)
         ELSE <<g>> \o sorted

RECURSIVE Sorted(_, _, _)
Sorted(gaps, i, acc) ==
    IF i > Len(gaps) THEN acc ELSE Sorted(gaps, i + 1, InsertByRank(acc, gaps[i]))

\* sorted_gaps[:max_questions] for max_questions >= 0
Slice(s, n) == SubSeq(s, 1, Min(n, Len(s)))

generate_questions(gaps, max_questions) ==
    LET sorted_gaps == Sorted(gaps, 1, <<>>)
        top == Slice(sorted_gaps, max_questions)
    IN  [i \in 1..Len(top) |->
            [question |-> top[i].question, severity |-> top[i].severity,
             category |-> top[i].category]]

DefaultMaxQuestions == 5

-----------------------------------------------------------------------------
(* main.py: the graph author -> critic -> (gate | END), compiled with a     *)
(* MemorySaver checkpointer and interrupt_before = ["gate"]                 *)

\* A channel of ReqGuardState either holds a value or was never written;
\* dict.get(key, default) and dict[key] are read through Get and Has.
Unset == [set |-> FALSE]

Val(v) == [set |-> TRUE, v |-> v]

Has(state, key) == state[key].set

Get(state, key, default) == IF state[key].set THEN state[key].v ELSE default

EmptyValues ==
    [raw_requirements |-> Unset, author_output |-> Unset, critic_output |-> Unset,
     confidence |-> Unset, outcome |-> Unset, questions |-> Unset,
     human_feedback |-> Unset, iteration |-> Unset, approved |-> Unset]

\* a node's returned dict, or the input of invoke, written to the channels
Merge(values, update) ==
    [k \in DOMAIN values |-> IF update[k].set THEN update[k] ELSE values[k]]

\* no checkpoint stored for a thread id
NoCheckpoint == [saved |-> FALSE, values |-> EmptyValues, next |-> "none"]

author_node(state, content) ==
    [EmptyValues EXCEPT !.author_output = Val(extract(state.raw_requirements.v, content))]

critic_node(state, shared, responses, content) ==
    LET gaps         == check_against_checklist(state.author_output.v, shared, responses)
        critique_out == critique(state.author_output.v, gaps, content)
        confidence   == calculate_confidence(gaps, critique_out.llm_critique)
        outcome      == determine_outcome(confidence)
        questions    == generate_questions(gaps, DefaultMaxQuestions)
    IN  [EmptyValues EXCEPT !.critic_output = Val(critique_out),
                            !.confidence    = Val(confidence),
                            !.outcome       = Val(outcome),
                            !.questions     = Val(questions),
                            !.iteration     = Val(Get(state, "iteration", 0) + 1)]

\* the router as it would be with the cap compared by > instead of >=
should_continue_late_cap(state) ==
    IF Get(state, "approved", FALSE) THEN "end"
    ELSE IF Get(state, "iteration", 0) > 3 THEN "escalate"
    ELSE IF Get(state, "outcome", "clarify") = "complete" THEN "end"
    ELSE "gate"

should_continue(state) ==
    IF Get(state, "approved", FALSE) THEN "end"
    ELSE IF Get(state, "iteration", 0) >= 3 THEN "escalate"
    ELSE IF Get(state, "outcome", "clarify") = "complete" THEN "end"
    ELSE IF Get(state, "outcome", "clarify") = "partial" THEN "gate"
    ELSE "gate"

\* the conditional edge leaving gate; it is followed only by a run that is
\* resumed at gate, which no invoke of main.py does (see invoke below)
gate_edge(state) == IF Get(state, "approved", FALSE) THEN "end" ELSE "author"

\* The answers of the backend during one run of the graph:
\*   author    the completion returned to ReqGuardAuthor.extract
\*   verdicts  how the category prompts of the gap check are answered
\*   critique  the completion returned to ReqGuardCritic.critique
AllYes(items) ==
    [t |-> "object", map |-> [k \in {items[i].key : i \in 1..Len(items)} |-> JsonString(<<"Y","E","S">>)]]

Respond(verdicts, items) ==
    IF verdicts = "raise" THEN [kind |-> "raise", content |-> <<>>]
    ELSE [kind |-> "content",
          content |-> <<[t |-> "fence_json"], AllYes(items), [t |-> "fence"]>>]

ResponsesFor(verdicts, author_output, shared) ==
    LET checklist == get_checklist_for_loan_type(
                         shared, author_output.loan_classification.primary_type).result
    IN  [i \in 1..Len(checklist) |-> Respond(verdicts, checklist[i].items)]

\* app.invoke(input, config) with an input that is not None: the input is
\* written to the thread's channels (the values of an earlier run stay where
\* the input names no key), pending nodes of an interrupted run are dropped
\* and the graph runs from its entry point.  author_node fails with KeyError
\* when raw_requirements was never written; the input checkpoint is stored
\* by then.
invoke(checkpoint, input, shared, backend) ==
    LET v0 == Merge(checkpoint.values, input)
    IN  IF ~Has(v0, "raw_requirements")
        THEN [checkpoint |-> [saved |-> TRUE, values |-> v0, next |-> "author"],
              error |-> "KeyError", trace |-> <<"author">>, route |-> "none",
              shared |-> shared]
        ELSE LET v1 == Merge(v0, author_node(v0, backend.author))
                 v2 == Merge(v1, critic_node(v1, shared,
                                 ResponsesFor(backend.verdicts, v1.author_output.v, shared),
                                 backend.critique))
                 route == should_continue(v2)
             IN  [checkpoint |-> [saved  |-> TRUE, values |-> v2,
                                  next   |-> IF route = "gate" THEN "gate" ELSE "none"],
                  error |-> "none", trace |-> <<"author", "critic">>, route |-> route,
                  shared |-> get_checklist_for_loan_type(
                                 shared, v1.author_output.v.loan_classification.primary_type).shared]

\* app.get_state(config).values
get_state(checkpoint) == checkpoint.values

AdditionalContext ==
    <<"\n","\n","A","d","d","i","t","i","o","n","a","l"," ","c","o","n","t","e","x","t",":"," ">>

-----------------------------------------------------------------------------
(* Bounds and input sets                                                   *)

MaxCalls == 4

ThreadIds == {"demo-1", "demo-2"}

\* requirements texts submitted to run_analysis
RawTexts == {<<"l","o","a","n">>}

\* feedback typed at the gate
Feedbacks == {<<"V","A">>}

\* what the backend may answer during one run of the graph
Backends ==
    {[author |-> <<"R","e","s","e","r","v","e","s">>, verdicts |-> "yes",
      critique |-> <<"f","i","n","e">>],
     [author |-> <<"R","e","s","e","r","v","e","s">>, verdicts |-> "yes",
      critique |-> <<"S","e","r","i","o","u","s">>],
     [author |-> <<"R","e","s","e","r","v","e","s">>, verdicts |-> "raise",
      critique |-> <<"f","i","n","e">>]}

-----------------------------------------------------------------------------
(* The public operations of main.py                                        *)

\* the call just made: its operation and thread id, the feedback it passed,
\* whether a checkpoint existed and which node was pending when it was made,
\* and the error, the nodes run and the route taken by its invoke
NoCall ==
    [op |-> "none", tid |-> "none", feedback |-> <<>>, known |-> FALSE, resumed |-> "none",
     error |-> "none", trace |-> <<>>, route |-> "none"]

Observed(op, tid, feedback, r) ==
    [op |-> op, tid |-> tid, feedback |-> feedback,
     known |-> store[tid].saved, resumed |-> store[tid].next,
     error |-> r.error, trace |-> r.trace, route |-> r.route]

\* the bookkeeping every public call shares
Record(op, tid, feedback, r) ==
    /\ store' = [store EXCEPT ![tid] = r.checkpoint]
    /\ CHECKLIST' = r.shared
    /\ last' = Observed(op, tid, feedback, r)
    /\ passes' = [passes EXCEPT ![tid] = @ + (IF r.error = "none" THEN 1 ELSE 0)]
    /\ approvedSince' = [approvedSince EXCEPT ![tid] =
                             IF op = "run_analysis" THEN FALSE
                             ELSE IF op = "approve_and_continue" THEN TRUE
                             ELSE @]
    /\ calls' = calls + 1
    /\ UNCHANGED <<hashOf, chk, fn>>

run_analysis(requirements, backend) ==
    LET thread_id == hashOf[requirements]
        input == [EmptyValues EXCEPT !.raw_requirements = Val(requirements),
                                     !.iteration = Val(0)]
    IN  /\ calls < MaxCalls
        /\ \E r \in {invoke(store[thread_id], input, CHECKLIST, backend)} :
               Record("run_analysis", thread_id, <<>>, r)

approve_and_continue(thread_id, feedback, backend) ==
    LET input == [EmptyValues EXCEPT !.approved = Val(TRUE),
                                     !.human_feedback = Val(feedback)]
    IN  /\ calls < MaxCalls
        /\ \E r \in {invoke(store[thread_id], input, CHECKLIST, backend)} :
               Record("approve_and_continue", thread_id, feedback, r)

reject_and_refine(thread_id, feedback, backend) ==
    LET state == get_state(store[thread_id])
        updated_requirements == Get(state, "raw_requirements", <<>>) \o AdditionalContext \o feedback
        input == [EmptyValues EXCEPT !.raw_requirements = Val(updated_requirements),
                                     !.approved = Val(FALSE)]
    IN  /\ calls < MaxCalls
        /\ \E r \in {invoke(store[thread_id], input, CHECKLIST, backend)} :
               Record("reject_and_refine", thread_id, feedback, r)

RunAnalysis == \E requirements \in RawTexts, backend \in Backends :
    run_analysis(requirements, backend)

ApproveAndContinue == \E thread_id \in ThreadIds, feedback \in Feedbacks, backend \in Backends :
    approve_and_continue(thread_id, feedback, backend)

RejectAndRefine == \E thread_id \in ThreadIds, feedback \in Feedbacks, backend \in Backends :
    reject_and_refine(thread_id, feedback, backend)

ChkIdle == [phase |-> "idle"]

FnIdle == [name |-> "none"]

Init ==
    /\ store = [t \in ThreadIds |-> NoCheckpoint]
    /\ hashOf \in [RawTexts -> ThreadIds]
    /\ CHECKLIST = BaseChecklist
    /\ last = NoCall
    /\ passes = [t \in ThreadIds |-> 0]
    /\ approvedSince = [t \in ThreadIds |-> FALSE]
    /\ calls = 0
    /\ chk = ChkIdle
    /\ fn = FnIdle

Next == RunAnalysis \/ ApproveAndContinue \/ RejectAndRefine

Spec == Init /\ [][Next]_vars

-----------------------------------------------------------------------------
(* One critic pass, the gap check taken category by category               *)

\* author outputs handed to the critic: (raw text, structured requirements)
ChkInputs ==
    {<<<<"l","o","a","n">>, <<"L","o","a","n"," ","T","y","p","e",";"," ","R","e","s","e","r","v","e","s">>>>,
     <<<<"l","o","a","n">>, <<"l","o","a","n","_","t","y","p","e"," ","a","p","p","r","a","i","s","a","l">>>>,
     <<<<"F","H","A">>, <<"L","o","a","n"," ","T","y","p","e",";"," ","R","e","s","e","r","v","e","s">>>>}

ChkCritiques == {<<"f","i","n","e">>, <<"S","e","r","i","o","u","s">>, <<"C","a","t","a","s","t","r","o","p","h","i","c">>}

Keys(items) == {items[i].key : i \in 1..Len(items)}

\* a payload with every verdict the parser tells apart: "no" for the first
\* item, no entry for the second, "UNKNOWN" for the last, "YES" for the rest
Mixed(items) ==
    [t |-> "object",
     map |-> [k \in Keys(items) \ (IF Len(items) > 2 THEN {items[2].key} ELSE {}) |->
                IF k = items[1].key THEN JsonString(<<"n","o">>)
                ELSE IF k = items[Len(items)].key THEN JsonString(<<"U","N","K","N","O","W","N">>)
                ELSE JsonString(<<"Y","E","S">>)]]

\* a payload whose second verdict is not a string, after a "NO" for the first
PartWay(items) ==
    [t |-> "object",
     map |-> [k \in Keys(items) |->
                IF k = items[1].key THEN JsonString(NO)
                ELSE IF k = items[2].key THEN NonString
                ELSE JsonString(<<"Y","E","S">>)]]

ChkResponses(items) ==
    {[kind |-> "raise", content |-> <<>>],
     [kind |-> "content", content |-> <<[t |-> "prose"]>>],
     [kind |-> "content", content |-> <<[t |-> "fence_json"], [t |-> "array"], [t |-> "fence"]>>],
     [kind |-> "content", content |-> <<[t |-> "ws"], [t |-> "fence_json"], [t |-> "ws"],
                                        AllYes(items), [t |-> "ws"], [t |-> "fence"], [t |-> "ws"]>>],
     [kind |-> "content", content |-> <<Mixed(items)>>],
     [kind |-> "content", content |-> <<[t |-> "fence"], PartWay(items), [t |-> "fence"]>>]}

ChkStart(input) ==
    LET author_output == extract(input[1], input[2])
    IN  [phase |-> "check",
         author_output |-> author_output,
         checklist |-> get_checklist_for_loan_type(
                           BaseChecklist, author_output.loan_classification.primary_type).result,
         gaps |-> <<>>,
         responses |-> <<>>,
         update |-> EmptyValues]

\* the body of the category loop, for the next category
ChkCategory ==
    /\ chk.phase = "check"
    /\ Len(chk.responses) < Len(chk.checklist)
    /\ LET entry == chk.checklist[Len(chk.responses) + 1]
       IN  \E response \in ChkResponses(entry.items) :
               chk' = [chk EXCEPT !.gaps = CheckCategory(chk.gaps, entry.category, entry.items,
                                               response, chk.author_output.structured_requirements),
                                  !.responses = Append(chk.responses, response)]
    /\ UNCHANGED <<store, hashOf, CHECKLIST, last, passes, approvedSince, calls, fn>>

\* the loop is over: critic_node as a whole, on the answers the loop received
ChkFinish ==
    /\ chk.phase = "check"
    /\ Len(chk.responses) = Len(chk.checklist)
    /\ \E content \in ChkCritiques :
           chk' = [chk EXCEPT !.phase = "done",
                              !.update = critic_node(
                                  [EmptyValues EXCEPT !.author_output = Val(chk.author_output)],
                                  CHECKLIST, chk.responses, content)]
    /\ UNCHANGED <<store, hashOf, CHECKLIST, last, passes, approvedSince, calls, fn>>

InitChk ==
    /\ store = [t \in ThreadIds |-> NoCheckpoint]
    /\ hashOf = [r \in RawTexts |-> "demo-1"]
    /\ CHECKLIST = BaseChecklist
    /\ last = NoCall
    /\ passes = [t \in ThreadIds |-> 0]
    /\ approvedSince = [t \in ThreadIds |-> FALSE]
    /\ calls = 0
    /\ chk \in {ChkStart(input) : input \in ChkInputs}
    /\ fn = FnIdle

NextChk == ChkCategory \/ ChkFinish

SpecChk == InitChk /\ [][NextChk]_vars

-----------------------------------------------------------------------------
(* Calls of the pure functions of agents.py                                *)

MaxCriticals == 11

MaxTail == 2

MaxGapLen == 4

MaxQuestionsArg == 6

ScoreGrid == 100

Severities == {"critical", "high", "medium", "low", "info"}

\* a gap as check_against_checklist builds it; n tells the gaps of a list apart
TestGap(severity, n) ==
    [category |-> "category", key |-> <<"k">>, description |-> "description",
     severity |-> severity, question |-> ToString(n)]

\* gap lists for the scorer: n critical gaps, then any gaps up to MaxTail
ScoredLists ==
    {[i \in 1..n |-> TestGap("critical", i)] \o [i \in 1..Len(tail) |-> TestGap(tail[i], n + i)] :
        n \in 0..MaxCriticals,
        tail \in UNION {[1..m -> Severities] : m \in 0..MaxTail}}

ScoredCritiques ==
    {<<>>, <<"S","e","r","i","o","u","s">>, <<"a"," ","M","a","j","o","r"," ","g","a","p">>,
     <<"C","R","I","T","I","C","A","L"," ","F","A","I","L","U","R","E">>}

\* gap lists for the question generator: every list of severities up to MaxGapLen
QuestionLists ==
    {[i \in 1..Len(sevs) |-> TestGap(sevs[i], i)] :
        sevs \in UNION {[1..m -> Severities] : m \in 0..MaxGapLen}}

Scores ==
    {(i * Scale) \div ScoreGrid : i \in 0..ScoreGrid}
        \cup {699999, 700000, 700001, 949999, 950000, 950001}

CallConfidence ==
    /\ fn.name = "calculate_confidence" /\ ~fn.done
    /\ fn' = [fn EXCEPT !.done = TRUE,
                        !.base = calculate_confidence(fn.gaps, fn.critique),
                        !.with_g = calculate_confidence(Append(fn.gaps, fn.g), fn.critique),
                        !.with_h = calculate_confidence(Append(fn.gaps, fn.h), fn.critique)]
    /\ UNCHANGED <<store, hashOf, CHECKLIST, last, passes, approvedSince, calls, chk>>

CallOutcome ==
    /\ fn.name = "determine_outcome" /\ ~fn.done
    /\ fn' = [fn EXCEPT !.done = TRUE, !.result = determine_outcome(fn.confidence)]
    /\ UNCHANGED <<store, hashOf, CHECKLIST, last, passes, approvedSince, calls, chk>>

CallQuestions ==
    /\ fn.name = "generate_questions" /\ ~fn.done
    /\ fn' = [fn EXCEPT !.done = TRUE, !.result = generate_questions(fn.gaps, fn.max_questions)]
    /\ UNCHANGED <<store, hashOf, CHECKLIST, last, passes, approvedSince, calls, chk>>

InitFn ==
    /\ store = [t \in ThreadIds |-> NoCheckpoint]
    /\ hashOf = [r \in RawTexts |-> "demo-1"]
    /\ CHECKLIST = BaseChecklist
    /\ last = NoCall
    /\ passes = [t \in ThreadIds |-> 0]
    /\ approvedSince = [t \in ThreadIds |-> FALSE]
    /\ calls = 0
    /\ chk = ChkIdle
    /\ \/ \E gaps \in ScoredLists, critique_text \in ScoredCritiques, sg \in Severities, sh \in Severities :
              fn = [name |-> "calculate_confidence", done |-> FALSE, gaps |-> gaps,
                    critique |-> critique_text,
                    g |-> TestGap(sg, Len(gaps) + 1), h |-> TestGap(sh, Len(gaps) + 1),
                    base |-> 0, with_g |-> 0, with_h |-> 0]
       \/ \E confidence \in Scores :
              fn = [name |-> "determine_outcome", done |-> FALSE, confidence |-> confidence,
                    result |-> "none"]
       \/ \E gaps \in QuestionLists, max_questions \in 0..MaxQuestionsArg :
              fn = [name |-> "generate_questions", done |-> FALSE, gaps |-> gaps,
                    max_questions |-> max_questions, result |-> <<>>]

NextFn == CallConfidence \/ CallOutcome \/ CallQuestions

SpecFn == InitFn /\ [][NextFn]_vars

-----------------------------------------------------------------------------
(* The functions of checklists.py on their own (SpecTbl): the detector     *)
(* applied to one text, and a sequence of calls on the shared table        *)

MaxTableCalls == 3

\* the tags a caller may pass: the six declared ones and one that is none of them
TableTags == {"FHA", "VA", "USDA", "Conventional", "Jumbo", "Reverse", "Bridge"}

\* test_samples.py: the five sample requirement texts

FHA_INCOMPLETE ==
    <<"\n","B","u","i","l","d"," ","a","n"," ","F","H","A"," ","l","o","a","n"," ","o","r","i",
      "g","i","n","a","t","i","o","n"," ","s","y","s","t","e","m"," ","f","o","r"," ","f","i",
      "r","s","t","-","t","i","m","e"," ","h","o","m","e","b","u","y","e","r","s",".","\n","S",
      "u","p","p","o","r","t"," ","l","o","a","n","s"," ","u","p"," ","t","o"," ","$","4","5",
      "0",",","0","0","0"," ","w","i","t","h"," ","3",".","5","%"," ","d","o","w","n"," ","p",
      "a","y","m","e","n","t",".","\n","I","n","t","e","g","r","a","t","e"," ","w","i","t","h",
      " ","e","x","i","s","t","i","n","g"," ","c","r","e","d","i","t"," ","p","u","l","l"," ",
      "s","y","s","t","e","m",".","\n">>

VA_INCOMPLETE ==
    <<"\n","C","r","e","a","t","e"," ","a"," ","V","A"," ","l","o","a","n"," ","p","r","o","c",
      "e","s","s","i","n","g"," ","m","o","d","u","l","e"," ","f","o","r"," ","v","e","t","e",
      "r","a","n","s",".","\n","S","u","p","p","o","r","t"," ","p","u","r","c","h","a","s","e",
      " ","a","n","d"," ","r","e","f","i","n","a","n","c","e"," ","t","r","a","n","s","a","c",
      "t","i","o","n","s",".","\n","F","u","n","d","i","n","g"," ","f","e","e"," ","s","h","o",
      "u","l","d"," ","b","e"," ","w","a","i","v","e","d"," ","f","o","r"," ","d","i","s","a",
      "b","l","e","d"," ","v","e","t","e","r","a","n","s",".","\n">>

CONVENTIONAL_COMPLETE ==
    <<"\n","B","u","i","l","d"," ","a"," ","c","o","n","v","e","n","t","i","o","n","a","l"," ",
      "c","o","n","f","o","r","m","i","n","g"," ","l","o","a","n"," ","m","o","d","u","l","e",
      ".","\n","L","o","a","n"," ","t","y","p","e",":"," ","C","o","n","v","e","n","t","i","o",
      "n","a","l"," ","3","0","-","y","e","a","r"," ","f","i","x","e","d","\n","L","o","a","n",
      " ","a","m","o","u","n","t",":"," ","$","1","0","0",",","0","0","0"," ","-"," ","$","7",
      "2","6",",","2","0","0"," ","(","2","0","2","4"," ","c","o","n","f","o","r","m","i","n",
      "g"," ","l","i","m","i","t","s",")","\n","L","T","V",":"," ","U","p"," ","t","o"," ","9",
      "7","%"," ","w","i","t","h"," ","P","M","I",","," ","8","0","%"," ","w","i","t","h","o",
      "u","t","\n","D","T","I",":"," ","F","r","o","n","t","-","e","n","d"," ","2","8","%",",",
      " ","B","a","c","k","-","e","n","d"," ","3","6","%"," ","(","4","3","%"," ","w","i","t",
      "h"," ","c","o","m","p","e","n","s","a","t","i","n","g"," ","f","a","c","t","o","r","s",
      ")","\n","C","r","e","d","i","t"," ","s","c","o","r","e",":"," ","M","i","n","i","m","u",
      "m"," ","6","2","0",","," ","b","e","t","t","e","r"," ","p","r","i","c","i","n","g"," ",
      "a","t"," ","7","4","0","+","\n","P","r","o","p","e","r","t","y"," ","t","y","p","e","s",
      ":"," ","S","F","R",","," ","C","o","n","d","o",","," ","2","-","4"," ","u","n","i","t",
      "\n","O","c","c","u","p","a","n","c","y",":"," ","P","r","i","m","a","r","y"," ","r","e",
      "s","i","d","e","n","c","e"," ","o","n","l","y","\n","T","R","I","D",":"," ","L","E"," ",
      "w","i","t","h","i","n"," ","3"," ","d","a","y","s",","," ","C","D"," ","3"," ","d","a",
      "y","s"," ","b","e","f","o","r","e"," ","c","l","o","s","e","\n","H","M","D","A",":"," ",
      "C","o","l","l","e","c","t"," ","a","l","l"," ","r","e","q","u","i","r","e","d"," ","f",
      "i","e","l","d","s"," ","p","e","r"," ","2","0","2","4"," ","g","u","i","d","e","l","i",
      "n","e","s","\n","I","n","c","o","m","e",":"," ","W","2"," ","(","2"," ","y","e","a","r",
      "s",")",","," ","t","a","x"," ","r","e","t","u","r","n","s"," ","f","o","r"," ","s","e",
      "l","f","-","e","m","p","l","o","y","e","d","\n","R","e","s","e","r","v","e","s",":"," ",
      "2"," ","m","o","n","t","h","s"," ","f","o","r"," ","l","o","a","n","s"," ","u","p"," ",
      "t","o"," ","$","5","0","0","K","\n">>

USDA_INCOMPLETE ==
    <<"\n","W","e"," ","n","e","e","d"," ","a"," ","U","S","D","A"," ","r","u","r","a","l"," ",
      "d","e","v","e","l","o","p","m","e","n","t"," ","l","o","a","n"," ","p","r","o","d","u",
      "c","t"," ","f","o","r"," ","l","o","w","-","i","n","c","o","m","e"," ","b","o","r","r",
      "o","w","e","r","s",".","\n","T","a","r","g","e","t"," ","r","u","r","a","l"," ","a","r",
      "e","a","s"," ","w","i","t","h"," ","1","0","0","%"," ","f","i","n","a","n","c","i","n",
      "g",".","\n">>

JUMBO_INCOMPLETE ==
    <<"\n","C","r","e","a","t","e"," ","a"," ","j","u","m","b","o"," ","l","o","a","n"," ","p",
      "r","o","d","u","c","t"," ","f","o","r"," ","h","i","g","h","-","n","e","t","-","w","o",
      "r","t","h"," ","i","n","d","i","v","i","d","u","a","l","s",".","\n","L","o","a","n"," ",
      "a","m","o","u","n","t","s"," ","f","r","o","m"," ","$","8","0","0",",","0","0","0"," ",
      "t","o"," ","$","3",",","0","0","0",",","0","0","0",".","\n","P","r","i","v","a","t","e",
      " ","b","a","n","k","i","n","g"," ","i","n","t","e","g","r","a","t","i","o","n"," ","r",
      "e","q","u","i","r","e","d",".","\n">>

\* every trigger phrase of LOAN_TYPE_TRIGGERS
AllTriggers ==
    UNION {{LOAN_TYPE_TRIGGERS[i].triggers[j] : j \in 1..Len(LOAN_TYPE_TRIGGERS[i].triggers)} :
              i \in 1..Len(LOAN_TYPE_TRIGGERS)}

\* texts for the detector: the samples, every trigger alone in lower and in
\* upper case inside a sentence, the first triggers of two tags together,
\* and texts without any trigger
DetectTexts ==
    {FHA_INCOMPLETE, VA_INCOMPLETE, CONVENTIONAL_COMPLETE, USDA_INCOMPLETE, JUMBO_INCOMPLETE}
        \cup {<<"A"," ">> \o trigger \o <<" ","l","o","a","n">> : trigger \in AllTriggers}
        \cup {<<"A"," ">> \o Upper(trigger) \o <<".">> : trigger \in AllTriggers}
        \cup {Upper(LOAN_TYPE_TRIGGERS[i].triggers[1]) \o <<" ","o","r"," ">>
                  \o LOAN_TYPE_TRIGGERS[j].triggers[1] :
                  i \in 1..Len(LOAN_TYPE_TRIGGERS), j \in 1..Len(LOAN_TYPE_TRIGGERS)}
        \cup {<<>>, <<"l","o","a","n">>, <<"M","o","r","t","g","a","g","e"," ","l","o","a","n">>}

CallDetect ==
    /\ fn.name = "detect_loan_type" /\ ~fn.done
    /\ fn' = [fn EXCEPT !.done = TRUE, !.result = detect_loan_type(fn.text)]
    /\ UNCHANGED <<store, hashOf, CHECKLIST, last, passes, approvedSince, calls, chk>>

\* one get_checklist_for_loan_type(loan_type) call on the module-level table;
\* fn.tags is the sequence of tags passed so far, fn.result the last result
CallChecklist ==
    /\ fn.name = "get_checklist_for_loan_type"
    /\ Len(fn.tags) < MaxTableCalls
    /\ \E loan_type \in TableTags :
           \E r \in {get_checklist_for_loan_type(CHECKLIST, loan_type)} :
               /\ fn' = [fn EXCEPT !.tags = Append(@, loan_type), !.result = r.result]
               /\ CHECKLIST' = r.shared
    /\ UNCHANGED <<store, hashOf, last, passes, approvedSince, calls, chk>>

InitTbl ==
    /\ store = [t \in ThreadIds |-> NoCheckpoint]
    /\ hashOf = [r \in RawTexts |-> "demo-1"]
    /\ CHECKLIST = BaseChecklist
    /\ last = NoCall
    /\ passes = [t \in ThreadIds |-> 0]
    /\ approvedSince = [t \in ThreadIds |-> FALSE]
    /\ calls = 0
    /\ chk = ChkIdle
    /\ \/ \E text \in DetectTexts :
              fn = [name |-> "detect_loan_type", done |-> FALSE, text |-> text,
                    result |-> [primary_type |-> "none", all_detected |-> <<>>, confidence |-> 0]]
       \/ fn = [name |-> "get_checklist_for_loan_type", tags |-> <<>>, result |-> <<>>]

NextTbl == CallDetect \/ CallChecklist

SpecTbl == InitTbl /\ [][NextTbl]_vars

-----------------------------------------------------------------------------
(* Properties of the pure functions (SpecFn)                               *)

\* the severity order critical > high > medium > low > unlisted
SeverityLevel(severity) ==
    CASE severity = "critical" -> 4
      [] severity = "high"     -> 3
      [] severity = "medium"   -> 2
      [] severity = "low"      -> 1
      [] OTHER                 -> 0

\* C7: for every gap list G, critique c and gaps g, h with g at least as
\* severe as h:
\*   0 <= confidence(G + [g], c) <= confidence(G + [h], c) <= confidence(G, c) <= 1
C7_ConfidenceMonotone ==
    (/\ fn.name = "calculate_confidence"
     /\ fn.done
     /\ SeverityLevel(fn.g.severity) >= SeverityLevel(fn.h.severity))
        => /\ 0 <= fn.with_g
           /\ fn.with_g <= fn.with_h
           /\ fn.with_h <= fn.base
           /\ fn.base <= Scale

\* a critical and a medium gap added to the same list under a penalised
\* critique, each lowering the score, the critical one further
C7_Witness ==
    /\ fn.name = "calculate_confidence"
    /\ fn.done
    /\ fn.g.severity = "critical"
    /\ fn.h.severity = "medium"
    /\ fn.critique = <<"S","e","r","i","o","u","s">>
    /\ 0 < fn.with_g
    /\ fn.with_g < fn.with_h
    /\ fn.with_h < fn.base

\* C8: determine_outcome answers for every score in [0,1]: "complete" exactly
\* when score >= 0.95, "partial" exactly when 0.70 <= score < 0.95, "clarify"
\* exactly when score < 0.70
C8_OutcomeThresholds ==
    (fn.name = "determine_outcome" /\ fn.done)
        => /\ fn.result \in {"complete", "partial", "clarify"}
           /\ (fn.result = "complete") <=> (fn.confidence * 100 >= 95 * Scale)
           /\ (fn.result = "partial")  <=> (/\ fn.confidence * 100 >= 70 * Scale
                                            /\ fn.confidence * 100 < 95 * Scale)
           /\ (fn.result = "clarify")  <=> (fn.confidence * 100 < 70 * Scale)

\* the score 0.70 itself, classified "partial"
C8_Witness ==
    /\ fn.name = "determine_outcome"
    /\ fn.done
    /\ fn.confidence * 100 = 70 * Scale
    /\ fn.result = "partial"

\* the rank named by the claim: critical 0, high 1, medium 2, low 3, other 4
ClaimedRank(g) ==
    CASE g.severity = "critical" -> 0
      [] g.severity = "high"     -> 1
      [] g.severity = "medium"   -> 2
      [] g.severity = "low"      -> 3
      [] OTHER                   -> 4

\* the place of gaps[k] in the order by rank, equal ranks in input order
PlaceOf(gaps, k) ==
    1 + Cardinality({j \in 1..Len(gaps) :
                        \/ ClaimedRank(gaps[j]) < ClaimedRank(gaps[k])
                        \/ ClaimedRank(gaps[j]) = ClaimedRank(gaps[k]) /\ j < k})

\* C10: generate_questions returns the first min(max_questions, len(gaps))
\* gaps of the input ordered by severity rank ascending, gaps of equal rank
\* in their input order
C10_QuestionsOrder ==
    (fn.name = "generate_questions" /\ fn.done)
        => /\ Len(fn.result) = Min(fn.max_questions, Len(fn.gaps))
           /\ \A k \in 1..Len(fn.gaps) :
                  PlaceOf(fn.gaps, k) <= Len(fn.result)
                      => fn.result[PlaceOf(fn.gaps, k)] =
                             [question |-> fn.gaps[k].question,
                              severity |-> fn.gaps[k].severity,
                              category |-> fn.gaps[k].category]

\* four gaps, two of them of equal rank behind a lower-ranked first gap, cut
\* to two questions
C10_Witness ==
    /\ fn.name = "generate_questions"
    /\ fn.done
    /\ Len(fn.gaps) = 4
    /\ fn.max_questions = 2
    /\ fn.gaps[1].severity = "low"
    /\ fn.gaps[2].severity = "critical"
    /\ fn.gaps[3].severity = "critical"
    /\ Len(fn.result) = 2
    /\ fn.result[1].question = fn.gaps[2].question
    /\ fn.result[2].question = fn.gaps[3].question


-----------------------------------------------------------------------------
(* Properties of the functions of checklists.py (SpecTbl)                  *)

\* the tags in the order LOAN_TYPE_TRIGGERS declares them
DeclaredTags == <<"FHA", "VA", "USDA", "Conventional", "Jumbo", "Reverse">>

TriggersOf(tag) ==
    LET entry == CHOOSE e \in {LOAN_TYPE_TRIGGERS[i] : i \in 1..Len(LOAN_TYPE_TRIGGERS)} :
                     e.tag = tag
    IN  {entry.triggers[j] : j \in 1..Len(entry.triggers)}

\* some trigger of the tag occurs in the text, letter case ignored
TagOccurs(tag, text) ==
    \E trigger \in TriggersOf(tag) : Contains(Lower(text), Lower(trigger))

\* C11: detect_loan_type ignores letter case; with no trigger in the text it
\* returns "Conventional", no detected tag and confidence 0.5; otherwise
\* confidence 0.9, the matching tags in declared order, and the first of
\* them as primary_type
C11_DetectLoanType ==
    (fn.name = "detect_loan_type" /\ fn.done) =>
        LET matching == SelectSeq(DeclaredTags, LAMBDA tag : TagOccurs(tag, fn.text))
        IN  /\ fn.result.all_detected = matching
            /\ matching = <<>> => /\ fn.result.primary_type = "Conventional"
                                  /\ fn.result.confidence * 10 = 5 * Scale
            /\ matching # <<>> => /\ fn.result.primary_type = matching[1]
                                  /\ fn.result.confidence * 10 = 9 * Scale

\* "FHA or jumbo": an upper-case trigger and a second tag, kept in declared order
C11_Witness ==
    /\ fn.name = "detect_loan_type"
    /\ fn.done
    /\ fn.text = <<"J","U","M","B","O"," ","o","r"," ","f","h","a">>
    /\ fn.result.all_detected = <<"FHA", "Jumbo">>
    /\ fn.result.primary_type = "FHA"
    /\ fn.result.confidence = 900000

IsAlnum(c) ==
    c \in DOMAIN LowerOf \/ c \in DOMAIN UpperOf
        \/ c \in {"0", "1", "2", "3", "4", "5", "6", "7", "8", "9"}

\* the phrase occurs in the text with no letter or digit next to it
OccursAsWords(text, phrase) ==
    \E i \in 1..(Len(text) - Len(phrase) + 1) :
        /\ SubSeq(Lower(text), i, i + Len(phrase) - 1) = phrase
        /\ i = 1 \/ ~IsAlnum(text[i - 1])
        /\ i + Len(phrase) > Len(text) \/ ~IsAlnum(text[i + Len(phrase)])

\* the tags named by the text: those with a trigger occurring as whole words
NamedTags(text) ==
    {DeclaredTags[i] : i \in {n \in 1..Len(DeclaredTags) :
        \E trigger \in TriggersOf(DeclaredTags[n]) : OccursAsWords(text, trigger)}}

\* C12 as claimed: a text whose whole-word triggers all belong to one tag is
\* given that tag as primary_type; the five samples are classified FHA, VA,
\* Conventional, USDA and Jumbo
C12_ClassifiedByNamedProduct ==
    (fn.name = "detect_loan_type" /\ fn.done) =>
        /\ \A tag \in NamedTags(fn.text) :
               NamedTags(fn.text) = {tag} => fn.result.primary_type = tag
        /\ fn.text = FHA_INCOMPLETE => fn.result.primary_type = "FHA"
        /\ fn.text = VA_INCOMPLETE => fn.result.primary_type = "VA"
        /\ fn.text = CONVENTIONAL_COMPLETE => fn.result.primary_type = "Conventional"
        /\ fn.text = USDA_INCOMPLETE => fn.result.primary_type = "USDA"
        /\ fn.text = JUMBO_INCOMPLETE => fn.result.primary_type = "Jumbo"

CategoriesOf(table) == [i \in 1..Len(table) |-> table[i].category]

KeysOf(items) == [i \in 1..Len(items) |-> items[i].key]

BaseCategories == <<"loan_product", "borrower", "property", "compliance">>

\* the four base categories with the items the module declares for them
HoldsBase(table) ==
    /\ Len(table) >= 4
    /\ CategoriesOf(SubSeq(table, 1, 4)) = BaseCategories
    /\ \A i \in 1..4 : table[i].items = BaseChecklist[i].items
    /\ [i \in 1..4 |-> Len(table[i].items)] = <<5, 5, 3, 4>>

\* C13: after any sequence of get_checklist_for_loan_type calls the shared
\* table is exactly the four base categories with their items, and the last
\* result is determined by the last tag alone: the base categories plus
\* fha_specific for "FHA", plus va_specific for "VA", nothing more otherwise
C13_TableUnchanged ==
    fn.name = "get_checklist_for_loan_type" =>
        /\ HoldsBase(CHECKLIST) /\ Len(CHECKLIST) = 4
        /\ fn.tags # <<>> =>
               LET loan_type == fn.tags[Len(fn.tags)]
                   extra == SubSeq(fn.result, 5, Len(fn.result))
               IN  /\ HoldsBase(fn.result)
                   /\ loan_type = "FHA" =>
                          /\ CategoriesOf(extra) = <<"fha_specific">>
                          /\ KeysOf(extra[1].items) = <<FhaItems[1].key, FhaItems[2].key>>
                   /\ loan_type = "VA" =>
                          /\ CategoriesOf(extra) = <<"va_specific">>
                          /\ KeysOf(extra[1].items) = <<VaItems[1].key, VaItems[2].key>>
                   /\ loan_type \notin {"FHA", "VA"} => extra = <<>>

\* "Conventional" called after "FHA" and "VA": base categories only
C13_Witness ==
    /\ fn.name = "get_checklist_for_loan_type"
    /\ fn.tags = <<"FHA", "VA", "Conventional">>
    /\ CategoriesOf(fn.result) = BaseCategories
    /\ CategoriesOf(CHECKLIST) = BaseCategories

-----------------------------------------------------------------------------
(* Properties of one critic pass (SpecChk)                                 *)

\* the answer is a failed call, or content holding no JSON object
FailedResponse(response) ==
    \/ response.kind = "raise"
    \/ \A i \in 1..Len(response.content) : response.content[i].t # "object"

\* the answer holds a JSON object whose values are all strings
VerdictMap(response) ==
    LET objects == SelectSeq(response.content, LAMBDA tok : tok.t = "object")
    IN  objects[1].map

ValidResponse(response) ==
    /\ ~FailedResponse(response)
    /\ \A k \in DOMAIN VerdictMap(response) : VerdictMap(response)[k].t = "string"

Reported(gaps, category, key) ==
    \E i \in 1..Len(gaps) : gaps[i].category = category /\ gaps[i].key = key

KeywordPresent(key, requirements_text) ==
    Contains(Lower(requirements_text), ReplaceChar(key, "_", " "))

SaysNo(response, key) ==
    \/ key \notin DOMAIN VerdictMap(response)
    \/ Contains(Upper(VerdictMap(response)[key].s), <<"N","O">>)

UNKNOWN == <<"U","N","K","N","O","W","N">>

\* the verdict the mapping holds for the key is the string "UNKNOWN"
SaysUnknown(response, key) ==
    /\ key \in DOMAIN VerdictMap(response)
    /\ VerdictMap(response)[key].s = UNKNOWN

\* C14 as claimed: under a payload that parses as a key-to-verdict mapping,
\* an item whose verdict is "UNKNOWN" produces no Gap record
C14_UnknownCovered ==
    chk.phase # "idle" =>
        \A i \in 1..Len(chk.responses) :
            ValidResponse(chk.responses[i]) =>
                \A n \in 1..Len(chk.checklist[i].items) :
                    SaysUnknown(chk.responses[i], chk.checklist[i].items[n].key) =>
                        ~Reported(chk.gaps, chk.checklist[i].category,
                                  chk.checklist[i].items[n].key)

\* an N directly followed by an O somewhere in the upper-cased verdict
HasLettersNO(verdict) ==
    \E j \in 1..(Len(verdict) - 1) :
        /\ verdict[j] \in {"N", "n"}
        /\ verdict[j + 1] \in {"O", "o"}

\* C14 amended: under a payload that parses as a key-to-verdict mapping, an
\* item produces exactly one Gap record when its key is absent or its verdict
\* has the letters "NO" next to each other in any letter case, and none
\* otherwise; "UNKNOWN" has them (unk-NO-wn), so it produces a Gap record
C14_UnknownIsGap ==
    chk.phase # "idle" =>
        \A i \in 1..Len(chk.responses) :
            ValidResponse(chk.responses[i]) =>
                \A n \in 1..Len(chk.checklist[i].items) :
                    LET category == chk.checklist[i].category
                        key      == chk.checklist[i].items[n].key
                        records  == {g \in 1..Len(chk.gaps) :
                                        chk.gaps[g].category = category /\ chk.gaps[g].key = key}
                        verdicts == VerdictMap(chk.responses[i])
                    IN  /\ Cardinality(records) =
                               IF key \notin DOMAIN verdicts \/ HasLettersNO(verdicts[key].s)
                               THEN 1 ELSE 0
                        /\ SaysUnknown(chk.responses[i], key) => Cardinality(records) = 1

\* the borrower category answered by the mapping with "UNKNOWN" for its last
\* item, reserves: a Gap record; "YES" for income_verification: none
C14_Witness ==
    /\ chk.phase = "done"
    /\ ValidResponse(chk.responses[2])
    /\ SaysUnknown(chk.responses[2], <<"r","e","s","e","r","v","e","s">>)
    /\ Reported(chk.gaps, "borrower", <<"r","e","s","e","r","v","e","s">>)
    /\ ~Reported(chk.gaps, "borrower",
                 <<"i","n","c","o","m","e","_","v","e","r","i","f","i","c","a","t","i","o","n">>)

\* where a Gap record's item stands in the checklist of the pass:
\* (index of its category, index of its item within the category)
CategoryIndex(gap) ==
    CHOOSE i \in 1..Len(chk.checklist) : chk.checklist[i].category = gap.category

ItemIndex(gap) ==
    CHOOSE n \in 1..Len(chk.checklist[CategoryIndex(gap)].items) :
        chk.checklist[CategoryIndex(gap)].items[n].key = gap.key

\* C16 as claimed: whatever each category's backend answer was, the gap list
\* holds an item at most once, in category order and then item order: the
\* places of the records strictly increase along the list
C16_GapsOnceInOrder ==
    chk.phase # "idle" =>
        \A a \in 1..Len(chk.gaps) : \A b \in 1..Len(chk.gaps) :
            a < b =>
                \/ CategoryIndex(chk.gaps[a]) < CategoryIndex(chk.gaps[b])
                \/ /\ CategoryIndex(chk.gaps[a]) = CategoryIndex(chk.gaps[b])
                   /\ ItemIndex(chk.gaps[a]) < ItemIndex(chk.gaps[b])

\* every item of every category is judged covered: by a "YES"-like verdict of
\* a valid mapping, or by the keyword rule where the call failed
AllJudgedCovered ==
    /\ Len(chk.responses) = Len(chk.checklist)
    /\ \A i \in 1..Len(chk.responses) :
           LET entry == chk.checklist[i]
           IN  \/ /\ ValidResponse(chk.responses[i])
                  /\ \A n \in 1..Len(entry.items) : ~SaysNo(chk.responses[i], entry.items[n].key)
               \/ /\ FailedResponse(chk.responses[i])
                  /\ \A n \in 1..Len(entry.items) :
                         KeywordPresent(entry.items[n].key,
                                        chk.author_output.structured_requirements)

ConventionalAllCovered ==
    /\ chk.phase = "done"
    /\ chk.author_output.loan_classification.primary_type = "Conventional"
    /\ AllJudgedCovered

PenaltyPhrase(text) ==
    \E phrase \in {<<"c","a","t","a","s","t","r","o","p","h","i","c">>,
                   <<"c","r","i","t","i","c","a","l"," ","f","a","i","l","u","r","e">>,
                   <<"m","a","j","o","r"," ","g","a","p">>,
                   <<"s","e","r","i","o","u","s">>} : Contains(Lower(text), phrase)

\* C6 as claimed: a Conventional run with every item judged covered has no
\* gaps and outcome "complete", whatever the critique says
C6_CompleteWhateverCritique ==
    ConventionalAllCovered =>
        /\ chk.update.critic_output.v.checklist_gaps = <<>>
        /\ chk.update.outcome.v = "complete"

\* C6 as amended: a Conventional run with every item judged covered has no
\* gaps; its outcome is "complete" when the critique holds none of the
\* penalty phrases and "partial" when it holds one
C6_CompleteUnlessPenalised ==
    ConventionalAllCovered =>
        /\ chk.update.critic_output.v.checklist_gaps = <<>>
        /\ chk.update.outcome.v =
               IF PenaltyPhrase(chk.update.critic_output.v.llm_critique)
               THEN "partial" ELSE "complete"

\* such a run under a critique that says "Serious"
C6_Witness ==
    /\ ConventionalAllCovered
    /\ chk.update.critic_output.v.llm_critique = <<"S","e","r","i","o","u","s">>
    /\ chk.update.critic_output.v.checklist_gaps = <<>>
    /\ chk.update.confidence.v = 900000
    /\ chk.update.outcome.v = "partial"

-----------------------------------------------------------------------------
(* Properties of the workflow (Spec)                                       *)

Approved(t) == Get(store[t].values, "approved", FALSE)

Iteration(t) == Get(store[t].values, "iteration", 0)

Outcome(t) == Get(store[t].values, "outcome", "clarify")

\* the critic's third pass on t is complete, unapproved and not "complete"
ThirdPassOpen(t) ==
    /\ store[t].saved
    /\ Has(store[t].values, "outcome")
    /\ Iteration(t) = 3
    /\ ~Approved(t)
    /\ Outcome(t) # "complete"

\* C1 as claimed: once the third pass on a thread is complete without
\* approval and without outcome "complete", the run has ended with reason
\* "escalate", the thread is not at gate, and no later call runs the
\* author/critic loop on that thread again
C1_NoFourthPass ==
    [][\A t \in ThreadIds :
          /\ (ThirdPassOpen(t)' /\ last'.tid = t) =>
                 (last'.route = "escalate" /\ store'[t].next = "none")
          /\ ThirdPassOpen(t) => passes'[t] = passes[t]]_vars

\* C2 as claimed: a thread routed to gate is suspended before gate; resumed
\* by approve_and_continue it ends without another author or critic run;
\* resumed by reject_and_refine it re-enters author with the feedback
\* appended to the previous text and approved = false
C2_ResumeAtGate ==
    [][\A t \in ThreadIds :
          (store[t].next = "gate" /\ last'.tid = t) =>
              /\ last'.op = "approve_and_continue" =>
                     /\ passes'[t] = passes[t]
                     /\ store'[t].next = "none"
              /\ last'.op = "reject_and_refine" =>
                     /\ last'.trace # <<>> /\ last'.trace[1] = "author"
                     /\ store'[t].values.author_output.v.raw_input =
                            store[t].values.raw_requirements.v \o AdditionalContext \o last'.feedback
                     /\ Has(store'[t].values, "approved") /\ ~Approved(t)']_vars

\* C3: the route after a critic pass is "end" when approved, else "escalate"
\* when iteration >= 3, else "end" when the outcome is "complete", else
\* "gate"; a thread waits at gate only unapproved, with iteration < 3 and an
\* outcome other than "complete"
C3_RoutePriority ==
    /\ (last.op # "none" /\ last.error = "none") =>
           /\ last.route = (IF Approved(last.tid) THEN "end"
                            ELSE IF Iteration(last.tid) >= 3 THEN "escalate"
                            ELSE IF Outcome(last.tid) = "complete" THEN "end"
                            ELSE "gate")
           /\ (store[last.tid].next = "gate") <=> (last.route = "gate")
           /\ Outcome(last.tid) \in {"complete", "partial", "clarify"}
    /\ \A t \in ThreadIds :
           store[t].next = "gate" =>
               /\ ~Approved(t)
               /\ Iteration(t) < 3
               /\ Outcome(t) # "complete"

\* a third pass that found the requirements complete and was still escalated
C3_Witness ==
    /\ last.op = "reject_and_refine"
    /\ last.error = "none"
    /\ ~Approved(last.tid)
    /\ Iteration(last.tid) = 3
    /\ Outcome(last.tid) = "complete"
    /\ last.route = "escalate"

\* C4 as claimed: approve_and_continue and reject_and_refine on a thread id
\* with no stored state fail, store nothing under that id and run no node
C4_UnknownThreadFails ==
    [][\A t \in ThreadIds :
          (/\ ~store[t].saved
           /\ last'.tid = t
           /\ last'.op \in {"approve_and_continue", "reject_and_refine"})
              => /\ last'.error # "none"
                 /\ ~store'[t].saved
                 /\ last'.trace = <<>>]_vars

\* C5 as claimed: the iteration stored under a thread id never decreases
C5_IterationMonotone ==
    [][\A t \in ThreadIds :
          Has(store[t].values, "iteration") =>
              /\ Has(store'[t].values, "iteration")
              /\ Iteration(t)' >= Iteration(t)]_vars

\* C15 as claimed: a call ends a thread's run with reason "end" under outcome
\* "partial" or "clarify" only if approve_and_continue was called on the
\* thread after its most recent run_analysis, and the run a run_analysis
\* starts is never taken as approved
C15_EndNeedsFreshApproval ==
    (last.op # "none" /\ last.error = "none") =>
        /\ (last.route = "end" /\ Outcome(last.tid) \in {"partial", "clarify"})
               => approvedSince[last.tid]
        /\ last.op = "run_analysis" => ~Approved(last.tid)
====
